---------------------------- MODULE Spec2Model ----------------------------
(***************************************************************************)
(* Model of src/components/FileListing.tsx: the FileListing component, its *)
(* helpers humanFileSize and queryToPath, and the FileListItem row.        *)
(*                                                                         *)
(* A JavaScript string is a sequence of one-character strings, so that     *)
(* slicing, lower-casing and percent-encoding are computed, not assumed.   *)
(***************************************************************************)
EXTENDS Integers, Sequences, FiniteSets, TLC

(***************************************************************************)
(* Bounds of the model.                                                    *)
(***************************************************************************)
\* longest folder listing the fetch collaborator returns
MaxChildren == 3
\* deepest path (in segments) the router is driven to by entry clicks
MaxDepth == 1

(***************************************************************************)
(* Strings.                                                                *)
(***************************************************************************)
UpperChars == <<"A","B","C","D","E","F","G","H","I","J","K","L","M",
                "N","O","P","Q","R","S","T","U","V","W","X","Y","Z">>
LowerChars == <<"a","b","c","d","e","f","g","h","i","j","k","l","m",
                "n","o","p","q","r","s","t","u","v","w","x","y","z">>

\* String.prototype.toLowerCase, one character
LowerChar(ch) ==
    IF \E i \in 1..26 : UpperChars[i] = ch
    THEN LowerChars[CHOOSE i \in 1..26 : UpperChars[i] = ch]
    ELSE ch

\* String.prototype.toLowerCase
toLowerCase(s) == [i \in 1..Len(s) |-> LowerChar(s[i])]

\* String.prototype.lastIndexOf(ch): 0-based index of the last ch, -1 if none
lastIndexOf(s, ch) ==
    IF \E i \in 1..Len(s) : s[i] = ch
    THEN (CHOOSE i \in 1..Len(s) : s[i] = ch /\ \A j \in (i+1)..Len(s) : s[j] # ch) - 1
    ELSE -1

\* String.prototype.slice(start) for a start >= 0 (0-based)
slice(s, start) == IF start >= Len(s) THEN <<>> ELSE SubSeq(s, start + 1, Len(s))

\* String.prototype.includes(t)
includes(s, t) ==
    \E i \in 0..(Len(s) - Len(t)) : SubSeq(s, i + 1, i + Len(t)) = t

\* Array.prototype.join('/') of an array of strings
RECURSIVE join(_)
join(parts) ==
    IF Len(parts) = 0 THEN <<>>
    ELSE IF Len(parts) = 1 THEN parts[1]
    ELSE parts[1] \o <<"/">> \o join(Tail(parts))

\* the characters encodeURIComponent escapes, with their UTF-8 escapes
Escaped == {" ", "/", "%", "&", "?", "#", "EMOJI"}
EscapeOf(ch) ==
    CASE ch = " " -> <<"%","2","0">>
      [] ch = "/" -> <<"%","2","F">>
      [] ch = "%" -> <<"%","2","5">>
      [] ch = "&" -> <<"%","2","6">>
      [] ch = "?" -> <<"%","3","F">>
      [] ch = "#" -> <<"%","2","3">>
      [] ch = "EMOJI" -> <<"%","F","0","%","9","F","%","9","8","%","8","0">>

\* encodeURIComponent
RECURSIVE encodeURIComponent(_)
encodeURIComponent(s) ==
    IF Len(s) = 0 THEN <<>>
    ELSE (IF Head(s) \in Escaped THEN EscapeOf(Head(s)) ELSE <<Head(s)>>)
         \o encodeURIComponent(Tail(s))

\* decodeURIComponent, as the router applies it to each segment of a pushed URL
RECURSIVE decodeURIComponent(_)
decodeURIComponent(s) ==
    IF Len(s) = 0 THEN <<>>
    ELSE IF \E ch \in Escaped :
                /\ Len(EscapeOf(ch)) <= Len(s)
                /\ SubSeq(s, 1, Len(EscapeOf(ch))) = EscapeOf(ch)
         THEN LET ch == CHOOSE c \in Escaped :
                            /\ Len(EscapeOf(c)) <= Len(s)
                            /\ SubSeq(s, 1, Len(EscapeOf(c))) = EscapeOf(c)
              IN  <<ch>> \o decodeURIComponent(SubSeq(s, Len(EscapeOf(ch)) + 1, Len(s)))
         ELSE <<Head(s)>> \o decodeURIComponent(Tail(s))

\* String.prototype.split('/')
RECURSIVE split(_)
split(s) ==
    IF \A i \in 1..Len(s) : s[i] # "/" THEN <<s>>
    ELSE LET i == CHOOSE k \in 1..Len(s) : s[k] = "/" /\ \A j \in 1..(k-1) : s[j] # "/"
         IN  <<SubSeq(s, 1, i - 1)>> \o split(SubSeq(s, i + 1, Len(s)))

\* decimal digits of a natural number (Number.prototype.toString)
Digit(d) == <<"0","1","2","3","4","5","6","7","8","9">>[d + 1]
RECURSIVE NumToString(_)
NumToString(n) == IF n < 10 THEN <<Digit(n)>> ELSE NumToString(n \div 10) \o <<Digit(n % 10)>>

RECURSIVE Pow(_, _)
Pow(b, e) == IF e = 0 THEN 1 ELSE b * Pow(b, e - 1)

(***************************************************************************)
(* An optional JavaScript value: <<>> is undefined, <<v>> is the value v.  *)
(***************************************************************************)
Undefined == <<>>
Some(v) == <<v>>
IsDefined(o) == Len(o) = 1
Val(o) == o[1]

(***************************************************************************)
(* humanFileSize.  size / 1024^i is the exact rational size / D; every     *)
(* size below 2^53 and its quotient by a power of two are exact doubles,   *)
(* so Math.round and toFixed round the exact value, ties upwards.          *)
(***************************************************************************)
\* Math.floor(Math.log(size) / Math.log(1024)) for size >= 1024
RECURSIVE FloorLog1024(_)
FloorLog1024(size) == IF size < 1024 THEN 0 ELSE 1 + FloorLog1024(size \div 1024)

\* Math.floor in the place of Math.round
MathRound_Floor(size, D) == size \div D

\* Math.round(size / D)
MathRound(size, D) == (2 * size + D) \div (2 * D)

\* (size / D).toFixed(k)
toFixed(size, D, k) ==
    LET n == (2 * size * Pow(10, k) + D) \div (2 * D)
        int == n \div Pow(10, k)
        frac == n % Pow(10, k)
        pad == [j \in 1..(k - Len(NumToString(frac))) |-> "0"]
    IN  NumToString(int) \o <<".">> \o pad \o NumToString(frac)

UnitLetters == <<"K","M","G","T","P","E","Z","Y">>

\* humanFileSize(size); size is an optional number (c.size may be missing)
humanFileSize(size) ==
    IF ~IsDefined(size)
    THEN \* undefined < 1024 is false; i, num and round are NaN; 'KMGTPEZY'[NaN] is undefined
         <<"N","a","N"," ","u","n","d","e","f","i","n","e","d","B">>
    ELSE IF Val(size) < 1024 THEN NumToString(Val(size)) \o <<" ","B">>
    ELSE LET i == FloorLog1024(Val(size))
             D == Pow(1024, i)
             round == MathRound(Val(size), D)
             formatted == IF round < 10 THEN toFixed(Val(size), D, 2)
                          ELSE IF round < 100 THEN toFixed(Val(size), D, 1)
                          ELSE NumToString(round)
         IN  formatted \o <<" ", UnitLetters[i], "B">>

(***************************************************************************)
(* queryToPath.  A query is absent, or carries no path, a string path or   *)
(* an array path.                                                          *)
(***************************************************************************)
NoQuery == [kind |-> "undefined", str |-> <<>>, arr |-> <<>>]
NoPathQuery == [kind |-> "nopath", str |-> <<>>, arr |-> <<>>]
StringQuery(s) == [kind |-> "string", str |-> s, arr |-> <<>>]
ArrayQuery(a) == [kind |-> "array", str |-> <<>>, arr |-> a]

queryToPath(query) ==
    IF query.kind = "undefined" THEN <<"/">>
    ELSE IF query.kind = "nopath" THEN <<"/">>
    ELSE IF query.kind = "string"
         THEN IF Len(query.str) = 0 THEN <<"/">>          \* !'' is true
              ELSE <<"/">> \o encodeURIComponent(query.str)
    ELSE <<"/">> \o join([k \in 1..Len(query.arr) |-> encodeURIComponent(query.arr[k])])

(***************************************************************************)
(* The classification table of utils/getPreviewType and the helpers of     *)
(* utils/getFileIcon.  FileListing.tsx imports them; they are modelled     *)
(* from the specification's Extension Classifier (section 4.2).            *)
(***************************************************************************)
\* the preview enumeration; "none" is the category of a recognised
\* extension that has no renderer
preview == [image |-> "image", text |-> "text", code |-> "code",
            markdown |-> "markdown", video |-> "video", audio |-> "audio",
            pdf |-> "pdf", office |-> "office", none |-> "none"]

\* the extension -> category table, as a set of <<extension, category>> pairs
extensionTable ==
    { << <<"j","p","g">>,     preview.image >>,
      << <<"p","n","g">>,     preview.image >>,
      << <<"t","x","t">>,     preview.text >>,
      << <<"j","s">>,         preview.code >>,
      << <<"m","d">>,         preview.markdown >>,
      << <<"m","p","4">>,     preview.video >>,
      << <<"m","p","3">>,     preview.audio >>,
      << <<"p","d","f">>,     preview.pdf >>,
      << <<"d","o","c","x">>, preview.office >>,
      << <<"u","r","l">>,     preview.none >> }

\* hasKey(extensions, key)
hasKey(key) == \E e \in extensionTable : e[1] = key

\* extensions[key], for a key of the table
extensions(key) == (CHOOSE e \in extensionTable : e[1] = key)[2]

\* getExtension(fileName): the text after the last '.', empty when there is
\* no '.' or it is the last character, lower-cased
getExtension(fileName) ==
    LET dot == lastIndexOf(fileName, ".")
    IN  IF dot = -1 THEN <<>> ELSE toLowerCase(slice(fileName, dot + 1))

(***************************************************************************)
(* FileListing: classification of the two branches.                        *)
(***************************************************************************)
\* fileIsImage(fileName), lines 127-135
fileIsImage(fileName) ==
    LET fileExtension == getExtension(fileName)
    IN  IF hasKey(fileExtension)
        THEN extensions(fileExtension) = preview.image
        ELSE FALSE

\* fileName.slice(((fileName.lastIndexOf('.') - 1) >>> 0) + 2).toLowerCase(),
\* line 287.  x >>> 0 is x for x >= 0 and 2^32 + x for x < 0; lastIndexOf - 1
\* is negative for a name without '.' (-2) or with its only '.' first (-1),
\* and the slice then starts at 2^32 or 2^32 + 1, past the end of any string.
fileExtensionOf(fileName) ==
    LET x == lastIndexOf(fileName, ".") - 1
    IN  IF x < 0 THEN <<>> ELSE toLowerCase(slice(fileName, x + 2))

(***************************************************************************)
(* FileListItem (lines 62-98): the display data of one row.                *)
(***************************************************************************)
\* String.prototype.trim
RECURSIVE trim(_)
trim(s) ==
    IF Len(s) = 0 THEN s
    ELSE IF Head(s) = " " THEN trim(Tail(s))
    ELSE IF s[Len(s)] = " " THEN trim(SubSeq(s, 1, Len(s) - 1))
    ELSE s

\* the timestamps the store sends, and what toLocaleString('en-US', ...) shows
DateTable == { << "2021-07-01T08:00:00Z", "07/01/2021, 08:00" >>,
               << "2021-12-24T23:59:00Z", "12/24/2021, 23:59" >> }

\* new Date(c.lastModifiedDateTime).toLocaleString(...), lines 84-91
formatDate(t) ==
    IF IsDefined(t) /\ \E d \in DateTable : d[1] = Val(t)
    THEN (CHOOSE d \in DateTable : d[1] = Val(t))[2]
    ELSE "Invalid Date"

\* emojiRegex().exec(c.name) matched at index 0 (renderEmoji, lines 65-66)
renderEmoji(name) == Len(name) > 0 /\ name[1] = "EMOJI"

\* one row of the listing; c.name is defined (the pass has read it)
FileListItem(c) ==
    LET name == Val(c.name)
    IN  [ key   |-> c.id,
          emoji |-> renderEmoji(name),
          label |-> IF renderEmoji(name) THEN trim(Tail(name)) ELSE name,
          date  |-> formatDate(c.lastModifiedDateTime),
          size  |-> humanFileSize(c.size),
          folder |-> c.folder ]

(***************************************************************************)
(* FileListing: the pass over the children of a folder (lines 140-164).    *)
(***************************************************************************)
EmptyPass == [ imagesInFolder |-> <<>>, imageIndexDict |-> <<>>, imageIndex |-> 0,
               renderReadme |-> FALSE, readmeFile |-> Undefined, threw |-> FALSE ]

\* the body that keeps the README it found first
ForEachBody_KeepFirst(acc, c) ==
    IF acc.threw THEN acc
    ELSE IF ~IsDefined(c.name) THEN [acc EXCEPT !.threw = TRUE]
    ELSE
      LET name == Val(c.name)
          a1 == IF fileIsImage(name)
                THEN [acc EXCEPT
                        !.imagesInFolder = Append(@, [ src |-> c.downloadUrl,
                                                       alt |-> name,
                                                       downloadUrl |-> c.downloadUrl ]),
                        !.imageIndexDict = (c.id :> acc.imageIndex) @@ @,
                        !.imageIndex = @ + 1]
                ELSE acc
      IN  IF toLowerCase(name) = <<"r","e","a","d","m","e",".","m","d">> /\ ~acc.renderReadme
          THEN [a1 EXCEPT !.renderReadme = TRUE, !.readmeFile = Some(c)]
          ELSE a1

\* the body that records the index after incrementing the counter
ForEachBody_IndexAfter(acc, c) ==
    IF acc.threw THEN acc
    ELSE IF ~IsDefined(c.name) THEN [acc EXCEPT !.threw = TRUE]
    ELSE
      LET name == Val(c.name)
          a1 == IF fileIsImage(name)
                THEN [acc EXCEPT
                        !.imagesInFolder = Append(@, [ src |-> c.downloadUrl,
                                                       alt |-> name,
                                                       downloadUrl |-> c.downloadUrl ]),
                        !.imageIndexDict = (c.id :> (acc.imageIndex + 1)) @@ @,
                        !.imageIndex = @ + 1]
                ELSE acc
      IN  IF toLowerCase(name) = <<"r","e","a","d","m","e",".","m","d">>
          THEN [a1 EXCEPT !.renderReadme = TRUE, !.readmeFile = Some(c)]
          ELSE a1

\* the body of children.forEach for the child c, from the accumulated
\* locals acc.  Reading c.name of an entry without a name throws a
\* TypeError (c.name.toLowerCase(), line 160), which ends the render.
ForEachBody(acc, c) ==
    IF acc.threw THEN acc
    ELSE IF ~IsDefined(c.name) THEN [acc EXCEPT !.threw = TRUE]
    ELSE
      LET name == Val(c.name)
          a1 == IF fileIsImage(name)
                THEN [acc EXCEPT
                        !.imagesInFolder = Append(@, [ src |-> c.downloadUrl,
                                                       alt |-> name,
                                                       downloadUrl |-> c.downloadUrl ]),
                        !.imageIndexDict = (c.id :> acc.imageIndex) @@ @,
                        !.imageIndex = @ + 1]
                ELSE acc
      IN  IF toLowerCase(name) = <<"r","e","a","d","m","e",".","m","d">>
          THEN [a1 EXCEPT !.renderReadme = TRUE, !.readmeFile = Some(c)]
          ELSE a1

RECURSIVE ForEach(_, _, _)
ForEach(acc, children, k) ==
    IF k > Len(children) THEN acc
    ELSE ForEach(ForEachBody(acc, children[k]), children, k + 1)

ListingPass(children) == ForEach(EmptyPass, children, 1)

(***************************************************************************)
(* FileListing: what one render returns (lines 107-343).                   *)
(***************************************************************************)
\* getBaseUrl() of utils/tools: the origin of the deployment
getBaseUrl == <<"h","t","t","p","s",":","/","/","o",".","d","e","v">>

ApiPath == <<"/","a","p","i","?","p","a","t","h","=">>
RawFlag == <<"&","r","a","w","=","t","r","u","e">>
Marker401 == <<"4","0","1">>
Root == <<"/">>

\* the folder branch, lines 137-282
RenderFolder(path, children, visible, activeIdx) ==
    LET pass == ListingPass(children)
    IN  IF pass.threw THEN [kind |-> "Crash"]
        ELSE [ kind     |-> "Folder",
               path     |-> path,
               children |-> children,
               rows     |-> [k \in 1..Len(children) |-> FileListItem(children[k])],
               images   |-> pass.imagesInFolder,
               imageIndexDict |-> pass.imageIndexDict,
               \* <ReactViewer> is rendered only for a non-empty gallery
               viewer   |-> Len(pass.imagesInFolder) # 0,
               visible  |-> visible,
               activeIndex |-> activeIdx,
               readme   |-> IF pass.renderReadme THEN pass.readmeFile ELSE Undefined ]

\* the component a category is delegated to, lines 299-318
Delegate(category) ==
    CASE category = preview.text     -> "TextPreview"
      [] category = preview.code     -> "CodePreview"
      [] category = preview.markdown -> "MarkdownPreview"
      [] category = preview.video    -> "VideoPreview"
      [] category = preview.audio    -> "AudioPreview"
      [] category = preview.pdf      -> "PDFPreview"
      [] category = preview.office   -> "OfficePreview"

\* the file branch with the fallback handed to the text renderer
RenderFile_NoFallback(path, resp) ==
    LET fileExtension == fileExtensionOf(resp.name)
    IN  IF hasKey(fileExtension) /\ extensions(fileExtension) = preview.image
        THEN [kind |-> "Image", src |-> resp.downloadUrl, alt |-> resp.name]
        ELSE [kind |-> "Delegate",
              component |-> IF hasKey(fileExtension)
                               /\ extensions(fileExtension) \in
                                    { preview.code, preview.markdown, preview.video,
                                      preview.audio, preview.pdf, preview.office }
                            THEN Delegate(extensions(fileExtension))
                            ELSE "TextPreview",
              file |-> resp, path |-> path]

\* the file branch, lines 284-337
RenderFile(path, resp) ==
    LET downloadUrl == resp.downloadUrl
        fileName == resp.name
        fileExtension == fileExtensionOf(fileName)
    IN  IF hasKey(fileExtension)
        THEN LET category == extensions(fileExtension)
             IN  IF category = preview.image
                 THEN [kind |-> "Image", src |-> downloadUrl, alt |-> fileName]
                 ELSE IF category \in { preview.text, preview.code, preview.markdown,
                                        preview.video, preview.audio, preview.pdf,
                                        preview.office }
                 THEN [kind |-> "Delegate", component |-> Delegate(category),
                       file |-> resp, path |-> path]
                 ELSE \* default: of the switch
                      [kind |-> "FileName", text |-> fileName]
        ELSE \* <FourOhFour> 'Preview for file ... is not available' and <DownloadBtn>
             [kind |-> "Unavailable", name |-> resp.name, downloadBtn |-> downloadUrl]

\* the render that looks at the data before the error
Render_DataFirst(q, result, visible, activeIdx) ==
    LET p == queryToPath(q)
    IN  IF ~IsDefined(result.data) THEN [kind |-> "Loading"]
        ELSE IF IsDefined(result.error)
        THEN IF includes(Val(result.error), Marker401)
             THEN [kind |-> "Auth", redirect |-> p]
             ELSE [kind |-> "FourOhFour", errorMsg |-> Val(result.error)]
        ELSE LET resp == Val(result.data)
             IN  IF resp.kind = "folder"
                 THEN RenderFolder(p, resp.children, visible, activeIdx)
                 ELSE IF resp.kind = "file" THEN RenderFile(p, resp)
                 ELSE [kind |-> "CannotPreview", name |-> resp.name]

\* FileListing(query) with the hook's result = {data, error} and the two
\* useState values, lines 107-343
Render(q, result, visible, activeIdx) ==
    LET p == queryToPath(q)
    IN  IF IsDefined(result.error)
        THEN IF includes(Val(result.error), Marker401)
             THEN [kind |-> "Auth", redirect |-> p]
             ELSE [kind |-> "FourOhFour", errorMsg |-> Val(result.error)]
        ELSE IF ~IsDefined(result.data) THEN [kind |-> "Loading"]
        ELSE LET resp == Val(result.data)
             IN  IF resp.kind = "folder"
                 THEN RenderFolder(p, resp.children, visible, activeIdx)
                 ELSE IF resp.kind = "file" THEN RenderFile(p, resp)
                 ELSE [kind |-> "CannotPreview", name |-> resp.name]

(***************************************************************************)
(* The permalinks the click handlers copy.                                 *)
(***************************************************************************)
\* toolbar 'copy' onClick of the lightbox, lines 211-214
ImagePermalink(path, alt) ==
    IF Len(alt) # 0
    THEN getBaseUrl \o ApiPath \o (path \o <<"/">> \o alt) \o RawFlag
    ELSE <<>>

\* 'Copy raw file permalink' onClick, lines 256-259
RawFilePermalink(path, name) ==
    getBaseUrl \o ApiPath \o (IF path = Root THEN <<>> ELSE path) \o <<"/">> \o name \o RawFlag

\* 'Copy folder permalink' onClick, lines 243-246
FolderPermalink(path, name) ==
    getBaseUrl \o (IF path = Root THEN <<>> ELSE path) \o <<"/">> \o encodeURIComponent(name)

\* the URL an entry click pushes, line 232
PushTarget(path, name) ==
    (IF path = Root THEN <<>> ELSE path) \o <<"/">> \o encodeURIComponent(name)

\* the query the catch-all route hands to FileListing for a pushed URL: the
\* segments after the leading '/', each decoded
ParseUrl(url) ==
    LET segs == Tail(split(url))
    IN  ArrayQuery([k \in 1..Len(segs) |-> decodeURIComponent(segs[k])])

\* number of segments of a path
Depth(path) == IF path = Root THEN 0 ELSE Len(split(path)) - 1

(***************************************************************************)
(* What the store and the router can hand to the component.                *)
(***************************************************************************)
T1 == Some("2021-07-01T08:00:00Z")
T2 == Some("2021-12-24T23:59:00Z")

File(id, name, size, time, url) ==
    [ id |-> id, name |-> name, folder |-> FALSE, size |-> size,
      lastModifiedDateTime |-> time, downloadUrl |-> Some(url) ]
Folder(id, name, size, time) ==
    [ id |-> id, name |-> name, folder |-> TRUE, size |-> size,
      lastModifiedDateTime |-> time, downloadUrl |-> Undefined ]

\* the children a folder of the store may hold; ids are unique in a listing
Pool ==
    { File("i1", Some(<<"a",".","j","p","g">>), Some(512), T1, "dl1"),
      File("i2", Some(<<"R","E","A","D","M","E",".","m","d">>), Some(1048576), T1, "dl2"),
      File("i3", Some(<<"r","e","a","d","m","e",".","m","d">>), Some(1536), T2, "dl3"),
      Folder("i4", Some(<<"EMOJI"," ","b"," ","c">>), Some(52428800), T2),
      \* entries the store sent incomplete
      File("i5", Some(<<"m",".","P","N","G">>), Undefined, Undefined, "dl5"),
      File("i6", Undefined, Some(7), Some("yesterday"), "dl6") }

\* the sequences of n distinct children
RECURSIVE Arrangements(_)
Arrangements(n) ==
    IF n = 0 THEN { <<>> }
    ELSE { Append(p[1], p[2]) :
             p \in { p \in Arrangements(n - 1) \X Pool :
                        \A i \in 1..Len(p[1]) : p[1][i].id # p[2].id } }

Listings == UNION { Arrangements(n) : n \in 0..MaxChildren }

FolderResp(children) ==
    [ kind |-> "folder", name |-> <<"d","i","r">>, children |-> children,
      downloadUrl |-> Undefined ]
FileResp(name) ==
    [ kind |-> "file", name |-> name, children |-> <<>>, downloadUrl |-> Some("dl0") ]
OtherResp == [ kind |-> "other", name |-> <<"p","k","g">>, children |-> <<>>,
               downloadUrl |-> Undefined ]

FileNames ==
    { <<"a",".","j","p","g">>, <<"P","h","o","t","o",".","J","P","G">>,
      <<".","j","p","g">>, <<"a",".","b",".","p","n","g">>,
      <<"n",".","t","x","t">>, <<"s",".","j","s">>,
      <<"R","E","A","D","M","E",".","m","d">>, <<"v",".","M","P","4">>,
      <<"s",".","m","p","3">>, <<"d",".","p","d","f">>,
      <<"w",".","d","o","c","x">>, <<"l",".","u","r","l">>,
      <<"x",".","z","z","z">>, <<"n","o","e","x","t">>, <<"j","p","g",".">>,
      <<".","g","i","t">> }

Resps == { FolderResp(l) : l \in Listings } \cup { FileResp(n) : n \in FileNames }
         \cup { OtherResp }

\* error messages of the fetch collaborator
Messages == { <<"c","o","d","e"," ","4","0","1">>,
              <<"c","o","d","e"," ","4","0","4">>,
              <<"N","e","t","w","o","r","k"," ","E","r","r","o","r">> }

\* the data a failed revalidation leaves beside its error
StaleResps == { r \in Resps : Len(r.children) <= 1 }

NoResult == [ data |-> Undefined, error |-> Undefined ]

\* what useStaleSWR returns once the fetch has settled: data, an error, or
\* an error beside (stale) data
Results ==
    { [ data |-> Some(r), error |-> Undefined ] : r \in Resps } \cup
    { [ data |-> Undefined, error |-> Some(m) ] : m \in Messages } \cup
    { [ data |-> Some(r), error |-> Some(m) ] : r \in StaleResps, m \in Messages }

\* the queries the router hands over on a direct visit
Queries ==
    { NoQuery, NoPathQuery, StringQuery(<<>>), StringQuery(<<"a">>),
      StringQuery(<<"b"," ","c">>),
      ArrayQuery(<<>>), ArrayQuery(<< <<"a">> >>),
      ArrayQuery(<< <<"a">>, <<"b"," ","c">> >>),
      ArrayQuery(<< <<"a">>, <<>> >>), ArrayQuery(<< <<>> >>),
      ArrayQuery(<< <<"x","/","y">> >>) }

(***************************************************************************)
(* The component as a state machine.                                       *)
(***************************************************************************)
VARIABLES
    query,               \* the query prop
    swr,                 \* { data, error } of useStaleSWR
    imageViewerVisible,  \* useState(false)
    activeImageIdx,      \* useState(0)
    clicked,             \* the image entry last clicked in this listing
    copied,              \* what this step handed to clipboard.copy
    view                 \* what the last render returned

vars == << query, swr, imageViewerVisible, activeImageIdx, clicked, copied, view >>

path == queryToPath(query)

\* the component is mounted for the query q: both toggles have their
\* initial values and the fetch is outstanding
Mount(q) ==
    /\ query' = q
    /\ swr' = NoResult
    /\ imageViewerVisible' = FALSE
    /\ activeImageIdx' = 0
    /\ clicked' = Undefined
    /\ copied' = Undefined
    /\ view' = Render(q, NoResult, FALSE, 0)

Init ==
    /\ query \in Queries
    /\ swr = NoResult
    /\ imageViewerVisible = FALSE
    /\ activeImageIdx = 0
    /\ clicked = Undefined
    /\ copied = Undefined
    /\ view = Render(query, NoResult, FALSE, 0)

\* a navigation from outside the component (address bar, history)
Navigate == \E q \in Queries : q # query /\ Mount(q)

\* the fetch settles with the result r: useStaleSWR returns it and the
\* component renders again
FetchSettles(r) ==
    /\ swr = NoResult
    /\ swr' = r
    /\ view' = Render(query, r, imageViewerVisible, activeImageIdx)
    /\ UNCHANGED << query, imageViewerVisible, activeImageIdx, clicked >>
    /\ copied' = Undefined

FetchComplete == \E r \in Results : FetchSettles(r)

\* the row's position in the place of the gallery index
ClickedIndex_Row(dict, c, k) == k - 1

\* imageIndexDict[c.id], line 229
ClickedIndex(dict, c, k) == dict[c.id]

\* onClick of a row, lines 225-234
ClickEntry ==
    /\ view.kind = "Folder"
    /\ \E k \in 1..Len(view.children) :
         LET c == view.children[k]
         IN  IF ~c.folder /\ fileIsImage(Val(c.name))
             THEN /\ activeImageIdx' = ClickedIndex(view.imageIndexDict, c, k)
                  /\ imageViewerVisible' = TRUE
                  /\ clicked' = Some(c.id)
                  /\ copied' = Undefined
                  /\ view' = Render(query, swr, TRUE, ClickedIndex(view.imageIndexDict, c, k))
                  /\ UNCHANGED << query, swr >>
             ELSE /\ Depth(path) < MaxDepth
                  /\ Mount(ParseUrl(PushTarget(path, Val(c.name))))

\* onMaskClick of the lightbox, lines 197-199
MaskClick ==
    /\ view.kind = "Folder" /\ view.viewer /\ view.visible
    /\ imageViewerVisible' = FALSE
    /\ copied' = Undefined
    /\ view' = Render(query, swr, FALSE, activeImageIdx)
    /\ UNCHANGED << query, swr, activeImageIdx, clicked >>

\* the lightbox's copy button, for the image i it is showing
CopyImagePermalink ==
    /\ view.kind = "Folder" /\ view.viewer /\ view.visible
    /\ \E i \in 1..Len(view.images) :
         copied' = Some(ImagePermalink(path, view.images[i].alt))
    /\ UNCHANGED << query, swr, imageViewerVisible, activeImageIdx, clicked, view >>

\* the copy button of a file row
CopyRawFilePermalink ==
    /\ view.kind = "Folder"
    /\ \E k \in 1..Len(view.children) :
         /\ ~view.children[k].folder
         /\ copied' = Some(RawFilePermalink(path, Val(view.children[k].name)))
    /\ UNCHANGED << query, swr, imageViewerVisible, activeImageIdx, clicked, view >>

\* the copy button of a folder row
CopyFolderPermalink ==
    /\ view.kind = "Folder"
    /\ \E k \in 1..Len(view.children) :
         /\ view.children[k].folder
         /\ copied' = Some(FolderPermalink(path, Val(view.children[k].name)))
    /\ UNCHANGED << query, swr, imageViewerVisible, activeImageIdx, clicked, view >>

Next ==
    \/ Navigate
    \/ FetchComplete
    \/ ClickEntry
    \/ MaskClick
    \/ CopyImagePermalink
    \/ CopyRawFilePermalink
    \/ CopyFolderPermalink

Spec == Init /\ [][Next]_vars

(***************************************************************************)
(* humanFileSize on its own: a folder of one file is fetched, the size of  *)
(* the file drawn from windows around the values where the format changes. *)
(***************************************************************************)
\* half-width of each window of sizes
Window == 6

SizeCentres == { 6, 512, 1024, 1536, 9728, 10235, 101888, 102400, 524288,
                 1048576, 1572864, 9961472, 10480517, 10485760 }

Sizes == UNION { { b \in (c - Window)..(c + Window) : b >= 0 } : c \in SizeCentres }

SizedListing(b) ==
    << File("i1", Some(<<"n",".","t","x","t">>), Some(b), T1, "dl1") >>

SizeInit ==
    /\ query = NoQuery
    /\ swr = NoResult
    /\ imageViewerVisible = FALSE
    /\ activeImageIdx = 0
    /\ clicked = Undefined
    /\ copied = Undefined
    /\ view = Render(query, NoResult, FALSE, 0)

SizeFetch ==
    \E b \in Sizes :
        FetchSettles([ data |-> Some(FolderResp(SizedListing(b))), error |-> Undefined ])

\* the row's copy button, so that a fetched listing is also acted on
SizeNext ==
    \/ SizeFetch
    \/ CopyRawFilePermalink

SpecSize == SizeInit /\ [][SizeNext]_vars

(***************************************************************************)
(* Properties.                                                             *)
(***************************************************************************)
\* a folder listing is on screen: data without error, and the pass completed
FolderShown == view.kind = "Folder"

\* the 1-based positions of the children named readme.md, letter case aside
ReadmePositions(children) ==
    { k \in 1..Len(children) :
        /\ IsDefined(children[k].name)
        /\ toLowerCase(Val(children[k].name)) = <<"r","e","a","d","m","e",".","m","d">> }

ImagePositions(children) ==
    { k \in 1..Len(children) : fileIsImage(Val(children[k].name)) }

\* C2: for a listing with distinct ids, the id -> index map has exactly the
\* ids of the children fileIsImage admits as keys, maps them one-to-one onto
\* 0..count-1 in listing order, and the gallery descriptor at each index
\* carries that child's name as alt and its download reference as src and
\* downloadUrl.
C2_GalleryIndexBijection ==
    FolderShown =>
        LET ch == view.children
            ks == ImagePositions(ch)
            dict == view.imageIndexDict
        IN  /\ Len(view.images) = Cardinality(ks)
            /\ DOMAIN dict = { ch[k].id : k \in ks }
            /\ \A k \in ks :
                 /\ dict[ch[k].id] = Cardinality({ j \in ks : j < k })
                 /\ view.images[dict[ch[k].id] + 1] =
                      [ src |-> ch[k].downloadUrl, alt |-> Val(ch[k].name),
                        downloadUrl |-> ch[k].downloadUrl ]
            /\ { dict[ch[k].id] : k \in ks } = 0..(Cardinality(ks) - 1)

\* a listing with two images, the second after a child that is no image
C2_Witness ==
    /\ FolderShown
    /\ Len(view.images) >= 2
    /\ \E j, k \in 1..Len(view.children) :
         /\ j < k
         /\ j \notin ImagePositions(view.children)
         /\ k \in ImagePositions(view.children)

\* a single file is on screen
FileShown ==
    /\ ~IsDefined(swr.error)
    /\ IsDefined(swr.data)
    /\ Val(swr.data).kind = "file"

\* C3 as stated: a file name is admitted to the gallery by fileIsImage if
\* and only if the single-file view shows a file of that name as an inline
\* image.
C3_SameClassification ==
    FileShown => (view.kind = "Image" <=> fileIsImage(Val(swr.data).name))

Renderers == { preview.image, preview.text, preview.code, preview.markdown,
               preview.video, preview.audio, preview.pdf, preview.office }

\* the file on screen has no renderer: its extension is no key of the table
Unrecognised == FileShown /\ ~hasKey(fileExtensionOf(Val(swr.data).name))

\* the file on screen has no renderer: its extension is a key of the table
\* whose category is none of the eight rendered ones
Unrendered ==
    /\ FileShown
    /\ hasKey(fileExtensionOf(Val(swr.data).name))
    /\ extensions(fileExtensionOf(Val(swr.data).name)) \notin Renderers

IsAuthFailure(msg) ==
    \E i \in 1..(Len(msg) - 2) : msg[i] = "4" /\ msg[i + 1] = "0" /\ msg[i + 2] = "1"

\* C5: when the fetch reports an error, only the error outcome is rendered,
\* with or without data: the login display exactly when the error is an
\* authentication failure, and otherwise the error display with the
\* message as it came.
C5_ErrorWins ==
    IsDefined(swr.error) =>
        /\ view.kind \in { "Auth", "FourOhFour" }
        /\ view.kind = "Auth" <=> IsAuthFailure(Val(swr.error))
        /\ view.kind = "Auth" => view.redirect = path
        /\ view.kind = "FourOhFour" => view.errorMsg = Val(swr.error)

\* an error that is no authentication failure arrived beside a folder's data
C5_Witness ==
    /\ IsDefined(swr.error)
    /\ IsDefined(swr.data)
    /\ Val(swr.data).kind = "folder"
    /\ view.kind = "FourOhFour"

\* a folder's data arrived without an error
FolderFetched ==
    /\ ~IsDefined(swr.error)
    /\ IsDefined(swr.data)
    /\ Val(swr.data).kind = "folder"

\* C6 as stated: entries lacking a name, a size or a timestamp never abort
\* the pass: every entry of the listing gets its row, a missing size is
\* shown as the formatting of 0 and a missing or invalid timestamp as
\* 'unknown'.
C6_MalformedEntriesRendered ==
    FolderFetched =>
        LET ch == Val(swr.data).children
        IN  /\ view.kind = "Folder"
            /\ Len(view.rows) = Len(ch)
            /\ \A k \in 1..Len(ch) :
                 /\ ~IsDefined(ch[k].size) => view.rows[k].size = <<"0"," ","B">>
                 /\ (~IsDefined(ch[k].lastModifiedDateTime)
                       \/ \A d \in DateTable : d[1] # Val(ch[k].lastModifiedDateTime))
                    => view.rows[k].date = "unknown"

\* the segments of a query: none without a path, the string itself, or the
\* elements of the array
Segments(q) ==
    IF q.kind = "string" THEN << q.str >>
    ELSE IF q.kind = "array" THEN q.arr
    ELSE <<>>

\* C7 as stated: the path of every query begins with '/', ends with '/' only
\* when it is the root '/', and is '/' followed by the percent-encoded
\* segments joined by '/'.
C7_PathCanonical ==
    /\ path[1] = "/"
    /\ path # Root => path[Len(path)] # "/"
    /\ path = <<"/">> \o join([k \in 1..Len(Segments(query)) |->
                                  encodeURIComponent(Segments(query)[k])])

\* C8 as stated: for every image file of the listing on screen, under any
\* current path, the permalink the lightbox copies for it is the string the
\* copy button of its row copies.
C8_SamePermalink ==
    FolderShown =>
        \A k \in ImagePositions(view.children) :
            ~view.children[k].folder =>
                ImagePermalink(view.path,
                               view.images[view.imageIndexDict[view.children[k].id] + 1].alt)
                  = RawFilePermalink(view.path, Val(view.children[k].name))

(***************************************************************************)
(* Reading a displayed size back.                                          *)
(***************************************************************************)
IndexOf(s, ch) ==
    IF \E i \in 1..Len(s) : s[i] = ch
    THEN CHOOSE i \in 1..Len(s) : s[i] = ch /\ \A j \in 1..(i - 1) : s[j] # ch
    ELSE 0

DigitVal(ch) == CHOOSE d \in 0..9 : Digit(d) = ch

RECURSIVE StrToNum(_)
StrToNum(s) == IF Len(s) = 0 THEN 0
               ELSE 10 * StrToNum(SubSeq(s, 1, Len(s) - 1)) + DigitVal(s[Len(s)])

\* a displayed size '<number> <unit>': the number without its point, the
\* count of decimals, and the unit
ParseSize(s) ==
    LET sp == IndexOf(s, " ")
        num == SubSeq(s, 1, sp - 1)
        dot == IndexOf(num, ".")
    IN  [ n |-> IF dot = 0 THEN StrToNum(num)
                ELSE StrToNum(SubSeq(num, 1, dot - 1) \o SubSeq(num, dot + 1, Len(num))),
          decimals |-> IF dot = 0 THEN 0 ELSE Len(num) - dot,
          unit |-> SubSeq(s, sp + 1, Len(s)) ]

\* the displayed magnitude, in hundredths of the unit
Magnitude(s) == ParseSize(s).n * Pow(10, 2 - ParseSize(s).decimals)

\* the tiers whose powers of 1024 the sizes of the model reach
Tiers == 1..2

\* the tier of a byte count: 0 below 1024, else the i with 1024^i <= b < 1024^(i+1)
TierOf(b) ==
    IF b < 1024 THEN 0
    ELSE CHOOSE i \in Tiers : Pow(1024, i) <= b /\ b < Pow(1024, i + 1)

\* n is a/D rounded to the nearest integer, a tie upwards
IsNearest(n, a, D) == 2 * n * D - D <= 2 * a /\ 2 * a < 2 * n * D + D

\* the sized file of the listing on screen, and the size its row shows
ShownBytes == Val(view.children[1].size)
ShownSize == view.rows[1].size

\* C9: for the byte counts b of the model (0 <= b < 10 * 1024^2 + Window):
\* b < 1024 is shown as '<b> B'; for 1024^i <= b < 1024^(i+1) the unit is
\* the i-th letter of KMGTPEZY followed by 'B' and the number is b / 1024^i
\* with 2 decimals when its rounding r is below 10, with 1 decimal when r is
\* below 100, and r itself otherwise; and the displayed magnitude does not
\* decrease from b to the next larger byte count of the same tier.
C9_SizeFormat ==
    (FolderShown /\ Len(view.children) = 1 /\ IsDefined(view.children[1].size)) =>
        LET b == ShownBytes
            shown == ParseSize(ShownSize)
            i == TierOf(b)
            D == Pow(1024, i)
            r == CHOOSE x \in 0..(b \div D + 1) : IsNearest(x, b, D)
            larger == { x \in Sizes : x > b /\ TierOf(x) = i }
        IN  /\ IF i = 0
               THEN ShownSize = NumToString(b) \o <<" ","B">>
               ELSE /\ shown.unit = << UnitLetters[i], "B" >>
                    /\ shown.decimals = (IF r < 10 THEN 2 ELSE IF r < 100 THEN 1 ELSE 0)
                    /\ IsNearest(shown.n, b * Pow(10, shown.decimals), D)
            /\ larger # {} =>
                 LET next == CHOOSE x \in larger : \A y \in larger : x <= y
                 IN  Magnitude(ShownSize) <= Magnitude(humanFileSize(Some(next)))

\* a size of the second tier whose rounding is 10 while the number is below 10
C9_Witness ==
    /\ FolderShown /\ Len(view.children) = 1 /\ IsDefined(view.children[1].size)
    /\ ShownBytes = 10480517
    /\ ShownSize = <<"1","0",".","0"," ","M","B">>

\* the lightbox is rendered visible: its active index is an index of this
\* listing's gallery and designates the image entry clicked in this listing
C10_ActiveIndexValid ==
    (FolderShown /\ view.viewer /\ view.visible) =>
        /\ IsDefined(clicked)
        /\ view.activeIndex \in 0..(Len(view.images) - 1)
        /\ \E k \in ImagePositions(view.children) :
             /\ view.children[k].id = Val(clicked)
             /\ ~view.children[k].folder
             /\ view.images[view.activeIndex + 1] =
                  [ src |-> view.children[k].downloadUrl,
                    alt |-> Val(view.children[k].name),
                    downloadUrl |-> view.children[k].downloadUrl ]

\* a navigation resets both toggles
C10_ResetOnNavigation ==
    query' # query => (~imageViewerVisible' /\ activeImageIdx' = 0)

=============================================================================
